---- MODULE Spec2Model ----
(***************************************************************************)
(* A model of qemu_launcher.py's launch command compiler,                  *)
(* build_qemu_command, together with the collaborators it calls            *)
(* (get_qemu_executable, create_virtual_disk_interactive, get_user_input). *)
(* One behaviour is one call of build_qemu_command: the configuration and  *)
(* the host are chosen in Init, the answers typed at the prompts and the   *)
(* outcome of the image tool are chosen when the code asks for them.       *)
(* Under SpecTwice a second call follows the first, for the same VM, on    *)
(* the file system the first call has left.                                *)
(*                                                                         *)
(* Strings are TLA+ strings. The string functions the code uses            *)
(* (str.lower, str.split(',')[0], "audiodev=" in s, Path.is_absolute,      *)
(* Path.resolve) are given by their values on the strings of the model.    *)
(* extra_qemu_args is held as the list of its blank-separated words.       *)
(***************************************************************************)
EXTENDS Integers, Sequences, FiniteSets, TLC

\* ------------------------------------------------------------------ bounds
MaxExtra == 4
MaxShared == 2

\* --------------------------------------------------------------- constants
EXACT_AUDIO_DEVICE_DRIVERS ==
    {"ich9-intel-hda", "intel-hda", "hda-duplex", "ac97", "es1370", "sb16",
     "adlib", "cs4231a", "gus"}

\* GLOBAL_SETTINGS["default_vm_storage_dir"], absolute after module load
default_vm_storage_dir == "/store"

\* GLOBAL_SETTINGS["default_disk_format"]
default_disk_format == "qcow2"

\* the process's working directory, against which relative paths are opened
Cwd == "/cwd"

\* platform.machine()
Machine == "x86_64"

\* a key the configuration dictionary does not hold
Absent == "<absent>"

\* dict.get(key, default)
Get(v, d) == IF v = Absent THEN d ELSE v

\* ------------------------------------------------------- string functions
\* str.lower()
Lower(s) ==
    CASE s = "NONE" -> "none"
      [] s = "None" -> "none"
      [] s = "AUTO" -> "auto"
      [] s = "PA" -> "pa"
      [] s = "AC97" -> "ac97"
      [] s = "AC97,id=snd" -> "ac97,id=snd"
      [] s = "usb-audio,AudioDev=snd0" -> "usb-audio,audiodev=snd0"
      [] s = "ICH9-Intel-HDA" -> "ich9-intel-hda"
      [] s = "Y" -> "y"
      [] s = "N" -> "n"
      [] OTHER -> s

\* s.split(',')[0]
FirstField(s) ==
    CASE s = "hda-duplex,audiodev=foo" -> "hda-duplex"
      [] s = "ich9-intel-hda,audiodev=audio0" -> "ich9-intel-hda"
      [] s = "AC97,id=snd" -> "AC97"
      [] s = "usb-audio,AudioDev=snd0" -> "usb-audio"
      [] s = "pa,id=audio0" -> "pa"
      [] s = "intel-iommu,intremap=on,caching-mode=on" -> "intel-iommu"
      [] s = "e1000,netdev=net0" -> "e1000"
      [] s = "default,show-cursor=on" -> "default"
      [] s = "user,id=net0" -> "user"
      [] s = "whpx,kernel-irqchip=on" -> "whpx"
      [] OTHER -> s

\* "audiodev=" in s
ContainsAudiodevEq(s) ==
    s \in {"hda-duplex,audiodev=foo", "ich9-intel-hda,audiodev=audio0",
           "usb-audio,audiodev=snd0", "ac97,audiodev=audio0",
           "none,audiodev=audio0"}

\* Path(p).is_absolute()
IsAbsolute(p) ==
    p \in {"/data/win.img", "/store/disk.qcow2", "/share/a.img",
           "/share/b.img", "/iso/cd.iso", "/iso/boot.img",
           "/opt/qemu/qemu-system-x86_64", "/opt/qemu/qemu-img",
           "/cwd/b.img", "/cwd/disk.qcow2", "/store/sub/../disk.qcow2",
           "/cwd/sub/../disk.qcow2"}

\* a / b for pathlib paths (b relative)
PathJoin(a, b) == a \o "/" \o b

\* Path(p).resolve(): absolute, with ".." and symlinks folded
Resolve(p) ==
    LET abs == IF IsAbsolute(p) THEN p ELSE PathJoin(Cwd, p)
    IN  CASE abs = "/store/sub/../disk.qcow2" -> "/store/disk.qcow2"
          [] abs = "/cwd/sub/../disk.qcow2" -> "/cwd/disk.qcow2"
          [] OTHER -> abs

\* ",".join(parts)
RECURSIVE Join(_)
Join(parts) ==
    IF parts = <<>> THEN ""
    ELSE IF Len(parts) = 1 THEN parts[1]
    ELSE parts[1] \o "," \o Join(Tail(parts))

\* a slip of lines 339 and 372: list.append(x) where list.insert(1, x) stands
Insert1AtEnd(l, x) == Append(l, x)

\* list.insert(1, x)
Insert1(l, x) == <<l[1], x>> \o Tail(l)

\* shlex.split(s), s given as the list of the pieces between its blanks: a run
\* of blanks leaves empty pieces, which are no words
shlex_split(pieces) == SelectSeq(pieces, LAMBDA w : w # "")

\* ------------------------------------------------------------ input space
OSTypes == {"linux", "windows", "macos", "unknown"}

\* what the user may type at a y/n prompt
Answers == {"", "y", "Y", "n", "yes"}

\* the words extra_qemu_args is made of
ExtraWords ==
    {"-device", "-audiodev", "-soundhw", "hda-duplex,audiodev=foo",
     "ich9-intel-hda,audiodev=audio0", "AC97,id=snd",
     "usb-audio,AudioDev=snd0", "pa,id=audio0"}

RECURSIVE SeqsUpTo(_, _)
SeqsUpTo(S, n) ==
    IF n = 0 THEN {<<>>}
    ELSE LET shorter == SeqsUpTo(S, n - 1)
         IN  shorter \cup {Append(q, x) : q \in shorter, x \in S}

NoDisk ==
    [path |-> "", format |-> "qcow2", size |-> "20G",
     create_if_missing |-> TRUE, interface |-> "virtio"]

\* a shared_disks entry: a dict, or something that is not one
SharedEntry(path, format, readonly) ==
    [is_dict |-> TRUE, path |-> path, format |-> format,
     interface |-> Absent, readonly |-> readonly]

NotADict ==
    [is_dict |-> FALSE, path |-> Absent, format |-> Absent,
     interface |-> Absent, readonly |-> FALSE]

SharedEntries ==
    {SharedEntry(Absent, "", FALSE),
     SharedEntry("/share/a.img", "", FALSE),
     SharedEntry("/share/a.img", "raw", TRUE),
     SharedEntry("b.img", "", TRUE),
     SharedEntry("/store/disk.qcow2", "qcow2", FALSE),
     NotADict}

\* VM_CONFIGURATIONS[vm_name] of a VM with no disks, no audio, no network
PlainConfig ==
    [ram |-> "2G", cpu_cores |-> "2", machine_type |-> "q35",
     accelerator |-> "tcg", graphics |-> "virtio", usb_tablet |-> TRUE,
     disk_image |-> NoDisk,
     shared_disks |-> [is_list |-> TRUE, items |-> <<>>],
     iso_path |-> "", floppy_path |-> "", boot_order |-> "dc",
     network_enabled |-> FALSE, network_type |-> "user",
     audio_enabled |-> FALSE, audio_device_model |-> "none",
     audio_backend |-> "none", extra_qemu_args |-> <<>>]

\* a Linux host with the QEMU tools on PATH and the VM in VM_CONFIGURATIONS
PlainHost ==
    [os |-> "linux", kvm_ok |-> FALSE, vm_known |-> TRUE,
     settings |-> [system |-> "qemu-system-x86_64", img |-> "qemu-img"],
     on_path |-> {"qemu-system-x86_64", "qemu-img"},
     exe_files |-> {}]

\* ------------------------------------------------------------ collaborators
\* shutil.which(name): the path found, or "" for None
Which(host, name) ==
    IF name \in host.on_path THEN "/usr/bin/" \o name
    ELSE IF name \in host.exe_files THEN name
    ELSE ""

\* Path(p).is_file() of an executable
IsExeFile(host, p) ==
    p \in host.exe_files \cup {"/usr/bin/" \o n : n \in host.on_path}

\* get_qemu_executable(tool_type)
get_qemu_executable(host, tool_type) ==
    LET default_exe_name ==
            IF tool_type = "system" /\ Machine # ""
            THEN "qemu-system-" \o Machine
            ELSE IF tool_type = "system" THEN "qemu-system-x86_64"
            ELSE "qemu-img"
        exe_path_from_settings == host.settings[tool_type]
        default_name_with_ext ==
            default_exe_name \o (IF host.os = "windows" THEN ".exe" ELSE "")
        exe_in_path == Which(host, default_name_with_ext)
    IN  IF exe_path_from_settings # "" /\ IsExeFile(host, exe_path_from_settings)
        THEN Resolve(exe_path_from_settings)
        ELSE IF exe_path_from_settings # ""
                /\ Which(host, exe_path_from_settings) # ""
        THEN exe_path_from_settings
        ELSE IF exe_in_path # "" THEN exe_in_path
        ELSE IF exe_path_from_settings # "" THEN exe_path_from_settings
        ELSE default_name_with_ext

\* a slip of lines 255 and 289: only an empty name counts as not found
ExeNotFoundIfEmpty(host, exe) == exe = ""

\* lines 255 and 289:
\* `not exe or (not Path(exe).is_file() and not shutil.which(exe))`
ExeNotFound(host, exe) ==
    exe = "" \/ (~IsExeFile(host, exe) /\ Which(host, exe) = "")

\* get_user_input(prompt, default, to_lower) when the user types `typed`
\* (typed is already stripped)
get_user_input(typed, default, to_lower) ==
    LET val == IF typed = "" THEN default ELSE typed
    IN  IF to_lower THEN Lower(val) ELSE val

\* primary disk path of build_qemu_command and create_virtual_disk_interactive
DiskFullPath(disk_filename) ==
    Resolve(IF IsAbsolute(disk_filename) THEN disk_filename
            ELSE PathJoin(default_vm_storage_dir, disk_filename))

\* a slip of lines 262-265: the answer to "Proceed with disk creation?" is
\* not looked at
create_virtual_disk_unconfirmed(host, files, disk_config, typed, tool_ok, made) ==
    LET disk_filename == Get(disk_config.path, "")
        disk_full_path == DiskFullPath(disk_filename)
        disk_format == IF Get(disk_config.format, "") = ""
                       THEN default_disk_format ELSE disk_config.format
        disk_size == Get(disk_config.size, "")
        qemu_img_exe == get_qemu_executable(host, "img")
        command == <<qemu_img_exe, "create", "-f", disk_format,
                     disk_full_path, disk_size>>
        quiet(ret) == [ret |-> ret, ran |-> FALSE, command |-> <<>>,
                       files |-> files]
    IN  IF disk_filename = "" THEN quiet(FALSE)
        ELSE IF disk_full_path \in files THEN quiet(TRUE)
        ELSE IF ~disk_config.create_if_missing THEN quiet(FALSE)
        ELSE IF disk_size = "" THEN quiet(FALSE)
        ELSE IF ExeNotFound(host, qemu_img_exe) THEN quiet(FALSE)
        ELSE [ret |-> tool_ok, ran |-> TRUE, command |-> command,
              files |-> IF made THEN files \cup {disk_full_path} ELSE files]

\* create_virtual_disk_interactive(vm_config_name, disk_config) on the file
\* system files, when the user types `typed` at its prompt and the image tool,
\* if it is run, exits with tool_ok and leaves the file there or not (made).
\* ret: the value returned; ran: whether subprocess.run was reached;
\* command: its argument; files: the file system afterwards
create_virtual_disk_interactive(host, files, disk_config, typed, tool_ok, made) ==
    LET disk_filename == Get(disk_config.path, "")
        disk_full_path == DiskFullPath(disk_filename)
        disk_format == IF Get(disk_config.format, "") = ""
                       THEN default_disk_format ELSE disk_config.format
        disk_size == Get(disk_config.size, "")
        qemu_img_exe == get_qemu_executable(host, "img")
        command == <<qemu_img_exe, "create", "-f", disk_format,
                     disk_full_path, disk_size>>
        quiet(ret) == [ret |-> ret, ran |-> FALSE, command |-> <<>>,
                       files |-> files]
    IN  IF disk_filename = "" THEN quiet(FALSE)
        ELSE IF disk_full_path \in files THEN quiet(TRUE)
        ELSE IF ~disk_config.create_if_missing THEN quiet(FALSE)
        ELSE IF disk_size = "" THEN quiet(FALSE)
        ELSE IF ExeNotFound(host, qemu_img_exe) THEN quiet(FALSE)
        ELSE IF get_user_input(typed, "y", TRUE) # "y" THEN quiet(FALSE)
        ELSE [ret |-> tool_ok, ran |-> TRUE, command |-> command,
              files |-> IF made THEN files \cup {disk_full_path} ELSE files]

\* ------------------------------------------------------------------ state
VARIABLES
    config,      \* VM_CONFIGURATIONS[vm_name], read only
    host,        \* CURRENT_OS, /dev/kvm, GLOBAL_SETTINGS, PATH, VM id known
    files,       \* the resolved paths that exist in the file system
    pc,          \* where build_qemu_command is
    outcome,     \* "running", "returned", "none", "SystemExit", "AttributeError"
    final_command,                    \* the list returned
    base,                             \* command_parts["base"]
    current_drive_index,
    shared_disks_config,              \* the list the shared-disk loop walks
    k,                                \* entries of it already walked
    script_generated_audio_args,
    script_intends_to_disable_audio,
    temp_extra_args,
    i,
    final_extra_args,
    creations,   \* calls of create_virtual_disk_interactive so far
    tool_runs,   \* commands handed to subprocess.run by it
    prompts,     \* "Continue launch? (y/n)" questions asked so far
    printed,     \* the kinds of message printed so far
    heard,       \* what this call was told: answers typed, what the tool did
    call_files,  \* the file system as this call found it
    earlier,     \* the call of build_qemu_command before this one, if any
    launch,      \* where launch_vm is: "build", "menu" (returned), "raised"
    spawned,     \* the vectors handed to subprocess.Popen by launch_vm
    create_rets  \* what create_virtual_disk_interactive has returned so far

vars ==
    <<config, host, files, pc, outcome, final_command, base,
      current_drive_index, shared_disks_config, k,
      script_generated_audio_args, script_intends_to_disable_audio,
      temp_extra_args, i, final_extra_args, creations, tool_runs, prompts,
      printed, heard, call_files, earlier, launch, spawned, create_rets>>

\* what one call does not change
inputs == <<config, host, call_files, earlier, launch, spawned>>
disk_locals == <<current_drive_index, shared_disks_config, k>>
audio_locals == <<script_generated_audio_args, script_intends_to_disable_audio>>
filter_locals == <<temp_extra_args, i, final_extra_args>>
ghosts == <<creations, tool_runs, prompts, heard, create_rets>>

\* ------------------------------------------------------------ initial states
\* VM id lookup and binary resolution
LookupInputs ==
    {<<PlainConfig,
       [PlainHost EXCEPT !.vm_known = known, !.os = os,
                         !.settings = [system |-> setting, img |-> "qemu-img"],
                         !.on_path = on_path, !.exe_files = exe_files]>> :
        known \in BOOLEAN, os \in OSTypes,
        setting \in {"", "qemu-system-x86_64", "/opt/qemu/qemu-system-x86_64"},
        on_path \in SUBSET {"qemu-system-x86_64", "qemu-system-x86_64.exe"},
        exe_files \in SUBSET {"/opt/qemu/qemu-system-x86_64"}}

\* platform defaults and the fixed part of the base arguments
PlatformInputs ==
    {<<[PlainConfig EXCEPT !.accelerator = accel, !.graphics = graphics,
                           !.usb_tablet = usb, !.network_enabled = net,
                           !.network_type = nettype],
       [PlainHost EXCEPT !.os = os, !.kvm_ok = kvm,
                         !.on_path = @ \cup {"qemu-system-x86_64.exe"}]>> :
        accel \in {Absent, "auto", "AUTO", "tcg", "kvm"}, graphics \in {"virtio", "none"},
        usb \in BOOLEAN, net \in BOOLEAN, nettype \in {Absent, "user", "tap", "bridge"},
        os \in OSTypes, kvm \in BOOLEAN}

PrimaryDisks ==
    {NoDisk}
    \cup {[path |-> path, format |-> format, size |-> size,
           create_if_missing |-> cim, interface |-> interface] :
            path \in {"sub/../disk.qcow2", "/data/win.img"},
            format \in {"", "qcow2"}, size \in {"", "20G"},
            cim \in BOOLEAN, interface \in {Absent, "ide"}}

SharedDiskConfigs ==
    {[is_list |-> FALSE, items |-> <<>>]}
    \cup {[is_list |-> TRUE, items |-> items] :
            items \in SeqsUpTo(SharedEntries, MaxShared)}

\* the primary disk against the file system, the image tool on PATH or not,
\* one shared disk behind it
PrimaryInputs ==
    {<<[PlainConfig EXCEPT
            !.disk_image = disk,
            !.shared_disks = [is_list |-> TRUE,
                              items |-> <<SharedEntry("/share/a.img", "", FALSE)>>]],
       [PlainHost EXCEPT !.on_path = on_path],
       present \cup {"/share/a.img"}>> :
        disk \in PrimaryDisks,
        on_path \in {{"qemu-system-x86_64"}, {"qemu-system-x86_64", "qemu-img"}},
        present \in SUBSET {"/store/disk.qcow2", "/data/win.img"}}

\* the shared-disk list against the file system, behind no primary disk, a
\* primary disk that exists and one that is missing
SharedInputs ==
    {<<[PlainConfig EXCEPT
            !.disk_image = [NoDisk EXCEPT !.path = path,
                                          !.create_if_missing = FALSE],
            !.shared_disks = shared],
       PlainHost, present>> :
        path \in {"", "sub/../disk.qcow2"}, shared \in SharedDiskConfigs,
        present \in SUBSET {"/store/disk.qcow2", "/share/a.img", "/cwd/b.img"}}

\* iso and floppy images against the file system, behind no disk and behind
\* a primary and a shared disk that exist
MediaInputs ==
    {<<[PlainConfig EXCEPT !.iso_path = iso, !.floppy_path = floppy,
                           !.disk_image = disks[1], !.shared_disks = disks[2]],
       PlainHost, present \cup disks[3]>> :
        iso \in {"", "/iso/cd.iso", "cd.iso"}, floppy \in {"", "/iso/boot.img"},
        present \in SUBSET {"/iso/cd.iso", "/cwd/cd.iso", "/iso/boot.img"},
        disks \in {<<NoDisk, [is_list |-> TRUE, items |-> <<>>], {}>>,
                   <<[NoDisk EXCEPT !.path = "/data/win.img"],
                     [is_list |-> TRUE,
                      items |-> <<SharedEntry("/share/a.img", "raw", TRUE)>>],
                     {"/data/win.img", "/share/a.img"}>>}}

AudioConfigs ==
    {[enabled |-> e, model |-> m, backend |-> b] :
        e \in BOOLEAN,
        m \in {Absent, "none", "NONE", "ac97", "AC97", "ich9-intel-hda"},
        b \in {Absent, "none", "None", "auto", "AUTO", "pa", "PA"}}

WithAudio(cfg, a) ==
    [cfg EXCEPT !.audio_enabled = a.enabled, !.audio_device_model = a.model,
                !.audio_backend = a.backend]

\* the audio decision on every host, with little in extra_qemu_args
AudioInputs ==
    {<<[WithAudio(PlainConfig, a) EXCEPT !.extra_qemu_args = extra],
       [PlainHost EXCEPT !.os = os,
                         !.on_path = @ \cup {"qemu-system-x86_64.exe"}]>> :
        a \in AudioConfigs, os \in OSTypes,
        extra \in {<<>>, <<"-device", "", "AC97,id=snd", "", "-soundhw">>}}

\* every extra_qemu_args of up to MaxExtra words, with audio managed by the
\* script (the defaults of a new VM) and with audio disabled
FilterInputs ==
    {<<[WithAudio(PlainConfig, a) EXCEPT !.extra_qemu_args = extra,
                                         !.usb_tablet = a.enabled],
       PlainHost>> :
        a \in {[enabled |-> TRUE, model |-> "ich9-intel-hda", backend |-> "auto"],
               [enabled |-> FALSE, model |-> "ich9-intel-hda", backend |-> "auto"]},
        extra \in SeqsUpTo(ExtraWords, MaxExtra)}

\* before the first call of build_qemu_command there is none to remember
NoEarlierCall ==
    [done |-> FALSE, files |-> {}, heard |-> <<>>, outcome |-> "running",
     command |-> <<>>]

Start(cfg, h, present) ==
    /\ config = cfg
    /\ host = h
    /\ files = present
    /\ pc = "start"
    /\ outcome = "running"
    /\ final_command = <<>>
    /\ base = <<>>
    /\ current_drive_index = 0
    /\ shared_disks_config = <<>>
    /\ k = 0
    /\ script_generated_audio_args = <<>>
    /\ script_intends_to_disable_audio = FALSE
    /\ temp_extra_args = <<>>
    /\ i = 0
    /\ final_extra_args = <<>>
    /\ creations = 0
    /\ tool_runs = <<>>
    /\ prompts = 0
    /\ printed = {}
    /\ heard = <<>>
    /\ call_files = present
    /\ earlier = NoEarlierCall
    /\ launch = "build"
    /\ spawned = <<>>
    /\ create_rets = <<>>

Init ==
    \/ \E in \in LookupInputs \cup PlatformInputs \cup AudioInputs \cup FilterInputs :
            Start(in[1], in[2], {})
    \/ \E in \in PrimaryInputs \cup SharedInputs \cup MediaInputs :
            Start(in[1], in[2], in[3])

\* ---------------------------------------------------------------- actions
Finish(how, command, messages) ==
    /\ pc' = "done"
    /\ outcome' = how
    /\ final_command' = command
    /\ printed' = printed \cup messages

\* line 285: the VM id is not in VM_CONFIGURATIONS
VmNotFound ==
    /\ pc = "start"
    /\ ~host.vm_known
    /\ Finish("none", <<>>, {"Error: VM configuration not found"})
    /\ UNCHANGED <<inputs, files, base, disk_locals, audio_locals,
                   filter_locals, ghosts>>

\* lines 288-290: the QEMU system executable is not found
QemuNotFound ==
    /\ pc = "start"
    /\ host.vm_known
    /\ ExeNotFound(host, get_qemu_executable(host, "system"))
    /\ Finish("none", <<>>, {"Error: QEMU system executable not found"})
    /\ UNCHANGED <<inputs, files, base, disk_locals, audio_locals,
                   filter_locals, ghosts>>

\* a slip of lines 298-307: the IOMMU device comes with every kvm, whether
\* auto-selected or configured
AccelArgsIommuWithAnyKvm(cfg, h) ==
    LET accel == Get(cfg.accelerator, "auto")
        accel_param ==
            IF accel = "auto"
            THEN IF h.os = "linux" /\ h.kvm_ok THEN "kvm"
                 ELSE IF h.os = "windows" THEN "whpx,kernel-irqchip=on"
                 ELSE IF h.os = "macos" THEN "hvf"
                 ELSE "tcg"
            ELSE accel
    IN  (IF accel_param = "kvm"
         THEN <<"-device", "intel-iommu,intremap=on,caching-mode=on">>
         ELSE <<>>)
        \o <<"-accel", accel_param>>

\* a slip of line 300: /dev/kvm is not looked at
AccelArgsKvmUnchecked(cfg, h) ==
    LET accel == Get(cfg.accelerator, "auto")
    IN  IF accel = "auto"
        THEN IF h.os = "linux"
             THEN <<"-device", "intel-iommu,intremap=on,caching-mode=on",
                    "-accel", "kvm">>
             ELSE IF h.os = "windows" THEN <<"-accel", "whpx,kernel-irqchip=on">>
             ELSE IF h.os = "macos" THEN <<"-accel", "hvf">>
             ELSE <<"-accel", "tcg">>
        ELSE <<"-accel", accel>>

\* lines 298-307: accel_param and the IOMMU device that comes with kvm
AccelArgs(cfg, h) ==
    LET accel == Get(cfg.accelerator, "auto")
    IN  IF accel = "auto"
        THEN IF h.os = "linux" /\ h.kvm_ok
             THEN <<"-device", "intel-iommu,intremap=on,caching-mode=on",
                    "-accel", "kvm">>
             ELSE IF h.os = "windows" THEN <<"-accel", "whpx,kernel-irqchip=on">>
             ELSE IF h.os = "macos" THEN <<"-accel", "hvf">>
             ELSE <<"-accel", "tcg">>
        ELSE <<"-accel", accel>>

\* lines 292-311: the base arguments before the drives
FixedArgs(cfg, h) ==
    <<get_qemu_executable(h, "system")>>
    \o <<"-m", Get(cfg.ram, "1G")>>
    \o <<"-smp", Get(cfg.cpu_cores, "1")>>
    \o <<"-machine", Get(cfg.machine_type, "q35")>>
    \o AccelArgs(cfg, h)
    \o <<"-vga", Get(cfg.graphics, "std")>>
    \o (IF Get(cfg.graphics, "std") # "none"
        THEN <<"-display", "default,show-cursor=on">> ELSE <<>>)
    \o (IF cfg.usb_tablet THEN <<"-usb", "-device", "usb-tablet">> ELSE <<>>)

\* a slip of line 313: the index is kept from the call before
InitialDriveIndexCarried(left_over) == left_over

\* line 313: current_drive_index = 0, whatever an earlier call left
InitialDriveIndex(left_over) == 0

\* lines 287-313
BaseArguments ==
    /\ pc = "start"
    /\ host.vm_known
    /\ ~ExeNotFound(host, get_qemu_executable(host, "system"))
    /\ base' = FixedArgs(config, host)
    /\ current_drive_index' = InitialDriveIndex(current_drive_index)
    /\ pc' = "primary"
    /\ printed' = printed \cup (IF Get(config.accelerator, "auto") = "auto"
                                THEN {"Auto-selected accelerator"} ELSE {})
    /\ UNCHANGED <<inputs, files, outcome, final_command, shared_disks_config,
                   k, audio_locals, filter_locals, ghosts>>

\* Path(p).exists() / Path(p).is_file(), p opened from the working directory
Exists(present, p) == Resolve(p) \in present

\* lines 336-346 and 365-378: one "-drive" argument and its value
DriveArgs(path, interface, index, format, readonly) ==
    LET drive_params_list ==
            <<"file=" \o path, "if=" \o interface,
              "index=" \o ToString(index), "media=disk">>
        with_format == IF format # ""
                       THEN Insert1(drive_params_list, "format=" \o format)
                       ELSE drive_params_list
        with_readonly == IF readonly THEN Append(with_format, "readonly=on")
                         ELSE with_format
    IN  <<"-drive", Join(with_readonly)>>

\* a slip of lines 347 and 381: the index moves on for a drive not attached
NextDriveIndexAlways(index, drive) == index + 1

\* lines 347 and 381: current_drive_index after a drive was attached, or none
NextDriveIndex(index, drive) ==
    IF drive # <<>> THEN index + 1 ELSE index

\* lines 350-353: the list the shared-disk loop walks
SharedDisksList(cfg) ==
    IF cfg.shared_disks.is_list THEN cfg.shared_disks.items ELSE <<>>

\* line 316: disk_filename
PrimaryFilename == Get(config.disk_image.path, "")

\* a slip of line 321: the existence check is left out
PrimaryMissingUnchecked == PrimaryFilename # ""

\* lines 317-321: a primary disk is configured and its file is not there
PrimaryMissing ==
    PrimaryFilename # "" /\ DiskFullPath(PrimaryFilename) \notin files

\* a slip of line 322: creation is tried whatever create_if_missing says
CreateRequestedAlways == TRUE

\* line 322: disk_conf.get("create_if_missing", False)
CreateRequested == config.disk_image.create_if_missing

\* lines 322-327: the primary disk is missing and set to auto-create
CreateMissingPrimary ==
    /\ pc = "primary"
    /\ PrimaryMissing
    /\ CreateRequested
    /\ \E typed \in Answers, tool_ok \in BOOLEAN, made \in BOOLEAN :
        LET call == create_virtual_disk_interactive(
                        host, files, config.disk_image, typed, tool_ok, made)
            still_missing == DiskFullPath(PrimaryFilename) \notin call.files
        IN  /\ creations' = creations + 1
            /\ tool_runs' = IF call.ran THEN Append(tool_runs, call.command)
                            ELSE tool_runs
            /\ files' = call.files
            /\ printed' = printed
                   \cup (IF call.ret THEN {}
                         ELSE {"Warning: Failed to create or find primary disk"})
                   \cup (IF still_missing
                         THEN {"Primary disk still missing after creation attempt"}
                         ELSE {})
            /\ pc' = IF still_missing THEN "prompt" ELSE "attach"
            /\ heard' = Append(heard, [asked |-> "create", typed |-> typed,
                                       tool_ok |-> tool_ok, made |-> made])
            /\ create_rets' = Append(create_rets, call.ret)
    /\ UNCHANGED <<inputs, outcome, final_command, base, disk_locals,
                   audio_locals, filter_locals, prompts>>

\* lines 328-329 and 331-333: "Continue launch? (y/n)"
AskContinue ==
    /\ \/ pc = "prompt"
       \/ pc = "primary" /\ PrimaryMissing /\ ~CreateRequested
    /\ prompts' = prompts + 1
    /\ \E typed \in Answers :
        /\ heard' = Append(heard, [asked |-> "continue", typed |-> typed,
                                   tool_ok |-> FALSE, made |-> FALSE])
        /\ IF get_user_input(typed, "y", TRUE) # "y"
           THEN Finish("SystemExit", <<>>,
                       IF pc = "primary"
                       THEN {"Warning: Primary disk image not found and not set to auto-create"}
                       ELSE {})
           ELSE /\ pc' = "attach"
                /\ printed' = printed \cup
                       (IF pc = "primary"
                        THEN {"Warning: Primary disk image not found and not set to auto-create"}
                        ELSE {})
                /\ UNCHANGED <<outcome, final_command>>
    /\ UNCHANGED <<inputs, files, base, disk_locals, audio_locals,
                   filter_locals, creations, tool_runs, create_rets>>

\* a slip of line 337: the drive names the path as configured
PrimaryDriveAsWritten(cfg, present, index) ==
    LET disk_conf == cfg.disk_image
        disk_filename == Get(disk_conf.path, "")
        disk_full_path == DiskFullPath(disk_filename)
    IN  IF disk_filename # "" /\ disk_full_path \in present
        THEN DriveArgs(disk_filename, Get(disk_conf.interface, "virtio"),
                       index, Get(disk_conf.format, ""), FALSE)
        ELSE <<>>

\* lines 335-347: the primary disk's drive, if the file is there
PrimaryDrive(cfg, present, index) ==
    LET disk_conf == cfg.disk_image
        disk_filename == Get(disk_conf.path, "")
        disk_full_path == DiskFullPath(disk_filename)
    IN  IF disk_filename # "" /\ disk_full_path \in present
        THEN DriveArgs(disk_full_path, Get(disk_conf.interface, "virtio"),
                       index, Get(disk_conf.format, ""), FALSE)
        ELSE <<>>

\* lines 316-321 (no primary disk, or one that exists) and 335-353
AttachPrimary ==
    /\ \/ pc = "attach"
       \/ pc = "primary" /\ ~PrimaryMissing
    /\ LET drive == PrimaryDrive(config, files, current_drive_index)
       IN  /\ base' = base \o drive
           /\ current_drive_index' = NextDriveIndex(current_drive_index, drive)
    /\ shared_disks_config' = SharedDisksList(config)
    /\ k' = 0
    /\ printed' = printed \cup
           (IF config.shared_disks.is_list THEN {}
            ELSE {"Warning: 'shared_disks' is not a list"})
    /\ pc' = "shared"
    /\ UNCHANGED <<inputs, files, outcome, final_command, audio_locals,
                   filter_locals, ghosts>>

\* lines 356-381: what one pass of the shared-disk loop adds for shared_disk
SharedDrive(shared_disk, present, index) ==
    LET shared_disk_path_str == Get(shared_disk.path, "")
    IN  IF shared_disk_path_str = "" THEN <<>>
        ELSE IF ~Exists(present, shared_disk_path_str) THEN <<>>
        ELSE DriveArgs(shared_disk_path_str,
                       Get(shared_disk.interface, "virtio"), index,
                       Get(shared_disk.format, ""), shared_disk.readonly)

\* lines 355-381: one pass of the loop over the shared disks
SharedDisk ==
    /\ pc = "shared"
    /\ k < Len(shared_disks_config)
    /\ LET shared_disk == shared_disks_config[k + 1]
           drive == SharedDrive(shared_disk, files, current_drive_index)
       IN  IF ~shared_disk.is_dict
           THEN /\ Finish("AttributeError", <<>>, {})
                /\ UNCHANGED <<base, disk_locals>>
           ELSE /\ base' = base \o drive
                /\ current_drive_index' =
                       NextDriveIndex(current_drive_index, drive)
                /\ k' = k + 1
                /\ printed' = printed \cup
                       (IF Get(shared_disk.path, "") = ""
                        THEN {"Warning: A shared disk entry is missing a path"}
                        ELSE IF drive = <<>>
                        THEN {"Warning: Shared disk image not found"}
                        ELSE {"Info: Attaching shared disk"})
                /\ UNCHANGED <<pc, outcome, final_command, shared_disks_config>>
    /\ UNCHANGED <<inputs, files, audio_locals, filter_locals, ghosts>>

\* a slip of lines 384 and 387: the images are not looked for
MediaArgsUnchecked(cfg, present) ==
    LET iso_path_str == Get(cfg.iso_path, "")
        floppy_path_str == Get(cfg.floppy_path, "")
    IN  (IF iso_path_str # "" THEN <<"-cdrom", iso_path_str>> ELSE <<>>)
        \o (IF floppy_path_str # "" THEN <<"-fda", floppy_path_str>> ELSE <<>>)
        \o <<"-boot", "order=" \o Get(cfg.boot_order, "c")>>
        \o (IF cfg.network_enabled /\ Get(cfg.network_type, "user") = "user"
            THEN <<"-netdev", "user,id=net0", "-device", "e1000,netdev=net0">>
            ELSE <<>>)

\* a slip of line 392: the network type is not looked at
MediaArgsAnyNetworkType(cfg, present) ==
    LET iso_path_str == Get(cfg.iso_path, "")
        floppy_path_str == Get(cfg.floppy_path, "")
    IN  (IF iso_path_str # "" /\ Exists(present, iso_path_str)
         THEN <<"-cdrom", iso_path_str>> ELSE <<>>)
        \o (IF floppy_path_str # "" /\ Exists(present, floppy_path_str)
            THEN <<"-fda", floppy_path_str>> ELSE <<>>)
        \o <<"-boot", "order=" \o Get(cfg.boot_order, "c")>>
        \o (IF cfg.network_enabled
            THEN <<"-netdev", "user,id=net0", "-device", "e1000,netdev=net0">>
            ELSE <<>>)

\* lines 383-393: iso, floppy, boot order and network arguments
MediaArgs(cfg, present) ==
    LET iso_path_str == Get(cfg.iso_path, "")
        floppy_path_str == Get(cfg.floppy_path, "")
    IN  (IF iso_path_str # "" /\ Exists(present, iso_path_str)
         THEN <<"-cdrom", iso_path_str>> ELSE <<>>)
        \o (IF floppy_path_str # "" /\ Exists(present, floppy_path_str)
            THEN <<"-fda", floppy_path_str>> ELSE <<>>)
        \o <<"-boot", "order=" \o Get(cfg.boot_order, "c")>>
        \o (IF cfg.network_enabled /\ Get(cfg.network_type, "user") = "user"
            THEN <<"-netdev", "user,id=net0", "-device", "e1000,netdev=net0">>
            ELSE <<>>)

\* a slip of line 401: the device model is not looked at
AudioArgsAnyModel(cfg, h) ==
    LET audio_model == Lower(Get(cfg.audio_device_model, "none"))
        audio_backend == Lower(Get(cfg.audio_backend, "none"))
    IN  IF cfg.audio_enabled /\ audio_backend # "none"
        THEN <<"-audiodev", audio_backend \o ",id=audio0",
               "-device", audio_model \o ",audiodev=audio0">>
        ELSE <<>>

\* a slip of lines 403-408: auto stands for pa on every host
AudioArgsAutoIsPa(cfg, h) ==
    LET audio_model == Lower(Get(cfg.audio_device_model, "none"))
        audio_backend == Lower(Get(cfg.audio_backend, "none"))
        backend_driver == IF audio_backend = "auto" THEN "pa" ELSE audio_backend
    IN  IF cfg.audio_enabled /\ audio_model # "none" /\ audio_backend # "none"
        THEN <<"-audiodev", backend_driver \o ",id=audio0",
               "-device", audio_model \o ",audiodev=audio0">>
        ELSE <<>>

\* lines 395-414: script_generated_audio_args
AudioArgs(cfg, h) ==
    LET audio_model == Lower(Get(cfg.audio_device_model, "none"))
        audio_backend == Lower(Get(cfg.audio_backend, "none"))
        backend_driver ==
            IF audio_backend = "auto"
            THEN IF h.os = "windows" THEN "wasapi"
                 ELSE IF h.os = "linux" THEN "pa"
                 ELSE IF h.os = "macos" THEN "coreaudio"
                 ELSE "sdl"
            ELSE audio_backend
        audio_id == "audio0"
    IN  IF cfg.audio_enabled /\ audio_model # "none" /\ audio_backend # "none"
        THEN <<"-audiodev", backend_driver \o ",id=" \o audio_id,
               "-device", audio_model \o ",audiodev=" \o audio_id>>
        ELSE <<>>

\* lines 401, 413-414: script_intends_to_disable_audio
AudioDisabled(cfg) ==
    ~(/\ cfg.audio_enabled
      /\ Lower(Get(cfg.audio_device_model, "none")) # "none"
      /\ Lower(Get(cfg.audio_backend, "none")) # "none")

\* lines 383-420: the end of the shared-disk loop, media, boot, network, the
\* audio decision and the split of extra_qemu_args
MediaAndAudio ==
    /\ pc = "shared"
    /\ k >= Len(shared_disks_config)
    /\ base' = base \o MediaArgs(config, files)
    /\ script_generated_audio_args' = AudioArgs(config, host)
    /\ script_intends_to_disable_audio' = AudioDisabled(config)
    /\ temp_extra_args' = shlex_split(config.extra_qemu_args)
    /\ i' = 0
    /\ final_extra_args' = <<>>
    /\ printed' = printed
           \cup (IF Get(config.iso_path, "") # ""
                    /\ ~Exists(files, Get(config.iso_path, ""))
                 THEN {"Warning: ISO image not found"} ELSE {})
           \cup (IF Get(config.floppy_path, "") # ""
                    /\ ~Exists(files, Get(config.floppy_path, ""))
                 THEN {"Warning: Floppy image not found"} ELSE {})
    /\ pc' = "filter"
    /\ UNCHANGED <<inputs, files, outcome, final_command, disk_locals, ghosts>>

\* Python's None, for arg_val_next
None == "<None>"

\* a slip of line 438: the driver part is not lower-cased
IsAudioDeviceValueCased(value) ==
    \/ ContainsAudiodevEq(Lower(value))
    \/ FirstField(value) \in EXACT_AUDIO_DEVICE_DRIVERS

\* line 439: the value of a -device names an audio device
IsAudioDeviceValue(value) ==
    \/ ContainsAudiodevEq(Lower(value))
    \/ Lower(FirstField(value)) \in EXACT_AUDIO_DEVICE_DRIVERS

\* a slip of lines 427-436: -soundhw and -audiodev are removed only together
\* with a value, a trailing one is kept
FilterPassKeepsTrailing(args, at, filtering) ==
    LET arg == args[at + 1]
        arg_val_next == IF at + 1 < Len(args) THEN args[at + 2] ELSE None
    IN  IF filtering /\ arg \in {"-soundhw", "-audiodev"} /\ arg_val_next # None
        THEN [i |-> at + 2, kept |-> <<>>]
        ELSE IF /\ filtering
                /\ arg = "-device"
                /\ arg_val_next \notin {None, ""}
                /\ IsAudioDeviceValue(arg_val_next)
        THEN [i |-> at + 2, kept |-> <<>>]
        ELSE [i |-> at + 1, kept |-> <<arg>>]

\* lines 422-448: one pass of the filter loop at index at (0-based):
\* the index after it, and what it appends to final_extra_args
FilterPass(args, at, filtering) ==
    LET arg == args[at + 1]
        arg_val_next == IF at + 1 < Len(args) THEN args[at + 2] ELSE None
    IN  IF filtering /\ arg \in {"-soundhw", "-audiodev"}
        THEN [i |-> IF arg_val_next # None THEN at + 2 ELSE at + 1,
              kept |-> <<>>]
        ELSE IF /\ filtering
                /\ arg = "-device"
                /\ arg_val_next \notin {None, ""}
                /\ IsAudioDeviceValue(arg_val_next)
        THEN [i |-> at + 2, kept |-> <<>>]
        ELSE [i |-> at + 1, kept |-> <<arg>>]

\* lines 421-448: one pass of the loop over temp_extra_args
FilterStep ==
    /\ pc = "filter"
    /\ i < Len(temp_extra_args)
    /\ LET pass == FilterPass(temp_extra_args, i,
                              script_generated_audio_args # <<>>
                              \/ script_intends_to_disable_audio)
       IN  /\ i' = pass.i
           /\ final_extra_args' = final_extra_args \o pass.kept
           /\ printed' = printed \cup
                  (IF pass.kept = <<>>
                   THEN {"Note: Filtering from extra_qemu_args"} ELSE {})
    /\ UNCHANGED <<inputs, files, pc, outcome, final_command, base,
                   disk_locals, audio_locals, temp_extra_args, ghosts>>

\* list.index(x): the 0-based index of the first x in l
IndexOf(l, x) == (CHOOSE n \in 1..Len(l) :
                      l[n] = x /\ \A m \in 1..(n - 1) : l[m] # x) - 1

\* lines 458-465: has_any_active_audio_config_in_final_cmd
HasActiveAudio(cmd) ==
    \E n \in 1..Len(cmd) :
        LET arg == cmd[n]
            after == IndexOf(cmd, arg) + 1
        IN  \/ arg = "-audiodev"
            \/ /\ arg = "-soundhw"
               /\ after < Len(cmd)
               /\ Lower(cmd[after + 1]) # "none"
            \/ /\ arg = "-device"
               /\ after < Len(cmd)
               /\ IsAudioDeviceValue(cmd[after + 1])

\* a slip of lines 454-455: the audio arguments go in before the extra ones
AssembleAudioFirst(base_args, extra, script_audio) ==
    base_args \o script_audio \o extra

\* lines 453-455: final_command
AssembleCommand(base_args, extra, script_audio) ==
    base_args \o extra \o script_audio

\* lines 457-472: what the sanity check prints
SanityMessages(cmd, disabling, script_audio) ==
    IF ~disabling THEN {}
    ELSE IF ~HasActiveAudio(cmd)
    THEN {"Note: Audio is disabled by script config"}
    ELSE IF script_audio # <<>>
    THEN {"Warning: Script intended to disable audio, but audio arguments were found"}
    ELSE {}

\* lines 450-473: the end of the filter loop, assembly, sanity check, return
Assemble ==
    /\ pc = "filter"
    /\ i >= Len(temp_extra_args)
    /\ LET cmd == AssembleCommand(base, final_extra_args,
                                  script_generated_audio_args)
       IN  Finish("returned", cmd,
                  SanityMessages(cmd, script_intends_to_disable_audio,
                                 script_generated_audio_args))
    /\ UNCHANGED <<inputs, files, base, disk_locals, audio_locals,
                   filter_locals, ghosts>>

Next ==
    \/ VmNotFound
    \/ QemuNotFound
    \/ BaseArguments
    \/ CreateMissingPrimary
    \/ AskContinue
    \/ AttachPrimary
    \/ SharedDisk
    \/ MediaAndAudio
    \/ FilterStep
    \/ Assemble

Spec == Init /\ [][Next]_vars

\* build_qemu_command is called again, for the same VM, on the file system
\* the call before has left; the locals of that call are not looked at
Recompile ==
    /\ pc = "done"
    /\ ~earlier.done
    /\ earlier' = [done |-> TRUE, files |-> call_files, heard |-> heard,
                   outcome |-> outcome, command |-> final_command]
    /\ call_files' = files
    /\ heard' = <<>>
    /\ pc' = "start"
    /\ outcome' = "running"
    /\ final_command' = <<>>
    /\ creations' = 0
    /\ tool_runs' = <<>>
    /\ create_rets' = <<>>
    /\ prompts' = 0
    /\ printed' = {}
    /\ UNCHANGED <<config, host, files, base, disk_locals, audio_locals,
                   filter_locals, launch, spawned>>

\* the calls whose second call is followed too: every step of the code, few
\* words in extra_qemu_args
InitTwice ==
    \/ \E in \in LookupInputs \cup AudioInputs : Start(in[1], in[2], {})
    \/ \E in \in PrimaryInputs \cup SharedInputs : Start(in[1], in[2], in[3])

NextTwice == Next \/ Recompile

\* two calls of build_qemu_command, one after the other
SpecTwice == InitTwice /\ [][NextTwice]_vars

\* a slip of line 479: the test of the value returned is left out
ShouldSpawnAlways(how, command) == TRUE

\* lines 478-480: launch_vm goes on to the spawner when build_qemu_command
\* has returned, and what it returned is not None and not empty
ShouldSpawn(how, command) == how = "returned" /\ command # <<>>

\* lines 491-499: the exceptions launch_vm catches (AttributeError by the
\* clause for Exception)
Caught(exception) ==
    exception \in {"FileNotFoundError", "SystemExit", "AttributeError"}

\* lines 482-490: the command is shown and handed to subprocess.Popen, which
\* finds the binary and waits for QEMU, or raises FileNotFoundError
SpawnProcess ==
    /\ pc = "done"
    /\ launch = "build"
    /\ ShouldSpawn(outcome, final_command)
    /\ spawned' = Append(spawned, final_command)
    /\ \E found \in BOOLEAN :
        /\ launch' = IF found \/ Caught("FileNotFoundError")
                      THEN "menu" ELSE "raised"
        /\ printed' = printed \cup {"Launching VM"}
               \cup (IF found THEN {"VM has exited"}
                     ELSE {"Error: QEMU executable not found by the spawner"})
    /\ UNCHANGED <<config, host, files, pc, outcome, final_command, base,
                   disk_locals, audio_locals, filter_locals, ghosts,
                   call_files, earlier>>

\* lines 479-481 and 494-499: no command was returned, or the call raised
AbandonLaunch ==
    /\ pc = "done"
    /\ launch = "build"
    /\ ~ShouldSpawn(outcome, final_command)
    /\ launch' = IF outcome \in {"returned", "none"} \/ Caught(outcome)
                  THEN "menu" ELSE "raised"
    /\ printed' = printed \cup
           (IF outcome = "SystemExit" THEN {"Launch aborted"}
            ELSE IF outcome \in {"returned", "none"}
            THEN {"Could not prepare launch command"}
            ELSE {"An unexpected error occurred while trying to launch"})
    /\ UNCHANGED <<config, host, files, pc, outcome, final_command, base,
                   disk_locals, audio_locals, filter_locals, ghosts,
                   call_files, earlier, spawned>>

NextLaunch == Next \/ SpawnProcess \/ AbandonLaunch

\* one call of launch_vm: build_qemu_command, then the spawner or not
SpecLaunch == Init /\ [][NextLaunch]_vars

\* launch_vm runs on: every prompt is answered and the tools it runs end
SpecLaunchFair == SpecLaunch /\ WF_vars(NextLaunch)

\* every disk_config create_virtual_disk_interactive may be handed, on hosts
\* with the image tool configured, on PATH, or neither
CreateInputs ==
    {<<[PlainConfig EXCEPT
            !.disk_image = [path |-> path, format |-> format, size |-> size,
                            create_if_missing |-> cim, interface |-> Absent]],
       [PlainHost EXCEPT !.os = os,
                         !.settings = [system |-> "qemu-system-x86_64",
                                       img |-> setting],
                         !.on_path = {"qemu-system-x86_64"} \cup on_path,
                         !.exe_files = exe_files],
       present>> :
        path \in {Absent, "", "sub/../disk.qcow2", "/data/win.img"},
        format \in {Absent, "", "raw"}, size \in {Absent, "", "20G"},
        cim \in BOOLEAN, os \in {"linux", "windows"},
        setting \in {"", "qemu-img", "/opt/qemu/qemu-img"},
        on_path \in SUBSET {"qemu-img"},
        exe_files \in SUBSET {"/opt/qemu/qemu-img"},
        present \in SUBSET {"/store/disk.qcow2", "/data/win.img"}}

InitCreate == \E in \in CreateInputs : Start(in[1], in[2], in[3])

\* lines 235-276: one call of create_virtual_disk_interactive with the VM's
\* disk_image, whatever it holds
CallCreateDisk ==
    /\ pc = "start"
    /\ \E typed \in Answers, tool_ok \in BOOLEAN, made \in BOOLEAN :
        LET call == create_virtual_disk_interactive(
                        host, files, config.disk_image, typed, tool_ok, made)
        IN  /\ creations' = creations + 1
            /\ tool_runs' = IF call.ran THEN Append(tool_runs, call.command)
                            ELSE tool_runs
            /\ files' = call.files
            /\ create_rets' = Append(create_rets, call.ret)
            /\ heard' = Append(heard, [asked |-> "create", typed |-> typed,
                                       tool_ok |-> tool_ok, made |-> made])
    /\ pc' = "created"
    /\ UNCHANGED <<inputs, outcome, final_command, base, disk_locals,
                   audio_locals, filter_locals, prompts, printed>>

\* create_virtual_disk_interactive on its own
SpecCreate == InitCreate /\ [][CallCreateDisk]_vars

TypeOK ==
    /\ pc \in {"start", "primary", "prompt", "attach", "shared", "filter", "done",
              "created"}
    /\ outcome \in {"running", "returned", "none", "SystemExit", "AttributeError"}
    /\ (pc = "done") = (outcome # "running")
    /\ i \in 0..(Len(temp_extra_args) + 1)
    /\ k \in 0..Len(shared_disks_config)

\* ----------------------------------------------------------- properties
\* the tokens that directly follow a token `flag` in cmd, in order
RECURSIVE ValuesAfter(_, _)
ValuesAfter(cmd, flag) ==
    IF Len(cmd) < 2 THEN <<>>
    ELSE IF cmd[1] = flag
    THEN <<cmd[2]>> \o ValuesAfter(SubSeq(cmd, 3, Len(cmd)), flag)
    ELSE ValuesAfter(Tail(cmd), flag)

\* the positions at which a is directly followed by b
PairPositions(cmd, a, b) ==
    {n \in 1..(Len(cmd) - 1) : cmd[n] = a /\ cmd[n + 1] = b}

Returned == outcome = "returned"

\* C1: a returned vector is the base arguments, then the filtered extra
\* arguments, then the script's audio arguments, and nothing else; with audio
\* disabled nothing follows the filtered extra arguments.
C1_VectorIsBaseExtraAudio ==
    Returned =>
        /\ final_command = base \o final_extra_args \o script_generated_audio_args
        /\ script_intends_to_disable_audio =>
               final_command = base \o final_extra_args

C1_Witness ==
    /\ Returned
    /\ final_extra_args # <<>>
    /\ script_generated_audio_args # <<>>
    /\ final_extra_args # script_generated_audio_args

\* the shared entries that have a path whose file exists, in list order
AttachableShared ==
    SelectSeq(SharedDisksList(config),
              LAMBDA e : Get(e.path, "") # "" /\ Exists(files, e.path))

PrimaryAttachable ==
    PrimaryFilename # "" /\ DiskFullPath(PrimaryFilename) \in files

\* the k-th shared drive token, numbered from `first`
RECURSIVE NumberedShared(_, _)
NumberedShared(entries, first) ==
    IF entries = <<>> THEN <<>>
    ELSE <<DriveArgs(entries[1].path, Get(entries[1].interface, "virtio"),
                     first, Get(entries[1].format, ""), entries[1].readonly)[2]>>
         \o NumberedShared(Tail(entries), first + 1)

ExpectedDrives ==
    IF PrimaryAttachable
    THEN <<DriveArgs(DiskFullPath(PrimaryFilename),
                     Get(config.disk_image.interface, "virtio"), 0,
                     Get(config.disk_image.format, ""), FALSE)[2]>>
         \o NumberedShared(AttachableShared, 1)
    ELSE NumberedShared(AttachableShared, 0)

\* C2: the -drive tokens of a returned vector are the primary disk, if it was
\* attached, then the shared entries that have a path whose file exists, in
\* list order, the k-th of them carrying index=k-1.
C2_DriveOrderAndIndices ==
    Returned => ValuesAfter(final_command, "-drive") = ExpectedDrives

C2_Witness ==
    /\ Returned
    /\ PrimaryAttachable
    /\ Len(SharedDisksList(config)) = 2
    /\ Len(AttachableShared) = 1
    /\ AttachableShared[1] = SharedDisksList(config)[2]
    /\ Len(ValuesAfter(final_command, "-drive")) = 2

\* C3: when extra_qemu_args contains `-device hda-duplex,audiodev=foo`, the
\* returned vector does not hold -device directly followed by
\* hda-duplex,audiodev=foo.
C3_HdaDuplexPairAbsent ==
    (/\ Returned
     /\ PairPositions(config.extra_qemu_args, "-device",
                      "hda-duplex,audiodev=foo") # {})
    => PairPositions(final_command, "-device", "hda-duplex,audiodev=foo") = {}

\* the audio backend an "auto" selector stands for on this host
AutoBackend ==
    CASE host.os = "windows" -> "wasapi"
      [] host.os = "linux" -> "pa"
      [] host.os = "macos" -> "coreaudio"
      [] OTHER -> "sdl"

FourAudioArgs(backend, model) ==
    <<"-audiodev", (IF backend = "auto" THEN AutoBackend ELSE backend)
                   \o ",id=audio0",
      "-device", model \o ",audiodev=audio0">>

\* C4 as stated: the audio arguments are the four tokens, with the configured
\* backend and model, when the flag is set and neither is "none", else empty.
C4_AudioArgsAsConfigured ==
    Returned =>
        LET model == Get(config.audio_device_model, "none")
            backend == Get(config.audio_backend, "none")
        IN  script_generated_audio_args =
                IF config.audio_enabled /\ model # "none" /\ backend # "none"
                THEN FourAudioArgs(backend, model)
                ELSE <<>>

\* C4, amended: the same with the configured backend and model lower-cased
\* before they are compared and emitted.
C4_AudioArgsLowerCased ==
    Returned =>
        LET model == Lower(Get(config.audio_device_model, "none"))
            backend == Lower(Get(config.audio_backend, "none"))
        IN  script_generated_audio_args =
                IF config.audio_enabled /\ model # "none" /\ backend # "none"
                THEN FourAudioArgs(backend, model)
                ELSE <<>>

C4_Witness ==
    /\ Returned
    /\ config.audio_enabled
    /\ config.audio_device_model = "AC97"
    /\ config.audio_backend = "PA"
    /\ script_generated_audio_args =
           <<"-audiodev", "pa,id=audio0", "-device", "ac97,audiodev=audio0">>

\* C5: with audio enabled, model ich9-intel-hda and backend auto on Linux, the
\* returned vector holds the pair -audiodev pa,id=audio0 once and the pair
\* -device ich9-intel-hda,audiodev=audio0 once, whatever extra_qemu_args is.
C5_ExactlyOneAudioPair ==
    (/\ Returned
     /\ config.audio_enabled
     /\ config.audio_device_model = "ich9-intel-hda"
     /\ config.audio_backend = "auto"
     /\ host.os = "linux")
    => /\ Cardinality(PairPositions(final_command, "-audiodev",
                                    "pa,id=audio0")) = 1
       /\ Cardinality(PairPositions(final_command, "-device",
                                    "ich9-intel-hda,audiodev=audio0")) = 1

\* an audio token is left in cmd: -audiodev, -soundhw with a value other than
\* none, or -device with an audio driver or audiodev= in its value
SurvivingAudio(cmd) ==
    \E n \in 1..Len(cmd) :
        \/ cmd[n] = "-audiodev"
        \/ cmd[n] = "-soundhw" /\ n < Len(cmd) /\ Lower(cmd[n + 1]) # "none"
        \/ /\ cmd[n] = "-device"
           /\ n < Len(cmd)
           /\ \/ Lower(FirstField(cmd[n + 1])) \in
                     {"ich9-intel-hda", "intel-hda", "hda-duplex", "ac97",
                      "es1370", "sb16", "adlib", "cs4231a", "gus"}
              \/ ContainsAudiodevEq(Lower(cmd[n + 1]))

\* C6: when audio is disabled and an audio token is left in the returned
\* vector, a warning has been printed.
C6_SurvivorIsWarned ==
    (Returned /\ script_intends_to_disable_audio /\ SurvivingAudio(final_command))
    => \E m \in printed :
           m = "Warning: Script intended to disable audio, but audio arguments were found"

\* what C7 says of a -device value: its first comma-separated field,
\* lower-cased, is a known audio driver, or it contains audiodev=
NamedAudioValue(value) ==
    \/ Lower(FirstField(value)) \in
           {"ich9-intel-hda", "intel-hda", "hda-duplex", "ac97", "es1370",
            "sb16", "adlib", "cs4231a", "gus"}
    \/ ContainsAudiodevEq(Lower(value))

\* the left-to-right scan C7 describes, on the words still to be read
RECURSIVE Scan(_)
Scan(words) ==
    IF words = <<>> THEN <<>>
    ELSE IF Head(words) \in {"-soundhw", "-audiodev"}
    THEN Scan(SubSeq(words, 3, Len(words)))
    ELSE IF /\ Head(words) = "-device"
            /\ Len(words) >= 2
            /\ NamedAudioValue(words[2])
    THEN Scan(SubSeq(words, 3, Len(words)))
    ELSE <<Head(words)>> \o Scan(Tail(words))

\* sub is a subsequence of full
RECURSIVE IsSubsequence(_, _)
IsSubsequence(sub, full) ==
    IF sub = <<>> THEN TRUE
    ELSE IF full = <<>> THEN FALSE
    ELSE IF Head(sub) = Head(full) THEN IsSubsequence(Tail(sub), Tail(full))
    ELSE IsSubsequence(sub, Tail(full))

\* C7: in both audio decisions the filtered extra arguments are what one
\* left-to-right scan leaves that drops -soundhw and -audiodev with the next
\* token and -device with a value naming an audio device; what is kept is a
\* subsequence of the words given. While the loop runs, what it has kept
\* followed by the scan of what it has not read is the scan of the whole.
C7_FilterIsTheScan ==
    /\ pc = "filter" =>
           /\ i <= Len(temp_extra_args)
           /\ final_extra_args
                  \o Scan(SubSeq(temp_extra_args, i + 1, Len(temp_extra_args)))
              = Scan(temp_extra_args)
    /\ Returned =>
           /\ final_extra_args = Scan(shlex_split(config.extra_qemu_args))
           /\ IsSubsequence(final_extra_args, shlex_split(config.extra_qemu_args))

C7_Witness ==
    /\ Returned
    /\ temp_extra_args =
           <<"pa,id=audio0", "-device", "AC97,id=snd", "-device">>
    /\ final_extra_args = <<"pa,id=audio0", "-device">>

\* the value of every -drive the primary disk could have
PrimaryDriveValues ==
    {DriveArgs(DiskFullPath(PrimaryFilename),
               Get(config.disk_image.interface, "virtio"), n,
               Get(config.disk_image.format, ""), FALSE)[2] :
        n \in 0..(MaxShared + 1)}

PastPrimary == pc \in {"attach", "shared", "filter"} \/ outcome # "running"

\* C8: a configured primary disk whose file is absent after any creation
\* attempt makes the code ask once whether to continue; on abort nothing is
\* returned, on continue the returned vector has no drive for the primary
\* disk; a primary disk whose file exists is never asked about.
C8_MissingPrimaryAsksOnce ==
    /\ prompts <= 1
    /\ (PastPrimary /\ PrimaryFilename # "" /\ ~PrimaryAttachable
            /\ outcome # "none") => prompts = 1
    /\ outcome = "SystemExit" => prompts = 1 /\ final_command = <<>>
    /\ (Returned /\ prompts = 1) =>
           \A n \in 1..Len(final_command) :
               final_command[n] \notin PrimaryDriveValues
    /\ (PrimaryFilename = "" \/ PrimaryAttachable) => prompts = 0

C8_Witness ==
    /\ Returned
    /\ prompts = 1
    /\ creations = 1
    /\ Len(tool_runs) = 1
    /\ ValuesAfter(final_command, "-drive") # <<>>

\* C9: create_virtual_disk_interactive is called at most once, and only from
\* the primary-disk step, for a configured primary disk whose file does not
\* exist and whose create_if_missing is set.
C9_CreationOnlyForMissingPrimary ==
    [][creations' # creations =>
          /\ creations = 0
          /\ creations' = 1
          /\ pc = "primary"
          /\ PrimaryFilename # ""
          /\ DiskFullPath(PrimaryFilename) \notin files
          /\ config.disk_image.create_if_missing]_vars

C9_Witness ==
    /\ creations = 1
    /\ pc = "shared"
    /\ k = 1
    /\ DiskFullPath(PrimaryFilename) \in files
    /\ tool_runs # <<>>

\* the system binary cannot be resolved: the configured name is neither an
\* existing file nor on PATH, and the default name is not on PATH
BinaryUnresolved ==
    LET setting == host.settings.system
        default == "qemu-system-x86_64"
                       \o (IF host.os = "windows" THEN ".exe" ELSE "")
    IN  /\ setting = "" \/ (setting \notin host.exe_files
                              /\ setting \notin host.on_path)
        /\ default \notin host.on_path

\* C10: with an unknown VM id or an unresolved binary no vector is returned,
\* and the call ends before any disk creation or prompt.
C10_NoVectorWithoutVmOrBinary ==
    (~host.vm_known \/ BinaryUnresolved) =>
        /\ pc \in {"start", "done"}
        /\ pc = "done" => outcome = "none" /\ final_command = <<>>
        /\ creations = 0 /\ prompts = 0 /\ tool_runs = <<>>

C10_Witness ==
    /\ pc = "done"
    /\ outcome = "none"
    /\ host.vm_known
    /\ host.settings.system = "/opt/qemu/qemu-system-x86_64"
    /\ host.on_path = {"qemu-system-x86_64"}
    /\ host.os = "windows"

\* shared_disks is not a list, or is a list with an entry that is no record
MalformedShared ==
    \/ ~config.shared_disks.is_list
    \/ \E n \in 1..Len(config.shared_disks.items) :
           ~config.shared_disks.items[n].is_dict

\* C11: a malformed shared-disk configuration never makes the call fail: the
\* call ends, unless the caller aborts it, by returning a vector, and the
\* vector holds the remaining arguments up to the boot order.
C11_MalformedSharedNeverFatal ==
    (MalformedShared /\ pc = "done" /\ outcome # "SystemExit") =>
        /\ Returned
        /\ \E n \in 1..Len(final_command) : final_command[n] = "-boot"

\* a drive token written out: the comma-joined string of its parameters
DriveToken(path, format, interface, n, readonly) ==
    "file=" \o path
    \o (IF format # "" THEN ",format=" \o format ELSE "")
    \o ",if=" \o interface
    \o ",index=" \o ToString(n)
    \o ",media=disk"
    \o (IF readonly THEN ",readonly=on" ELSE "")

\* the paths the configuration names, as written and resolved
ConfiguredDiskPaths ==
    {PrimaryFilename, DiskFullPath(PrimaryFilename)}
    \cup UNION {{Get(config.shared_disks.items[n].path, ""),
                 Resolve(Get(config.shared_disks.items[n].path, ""))} :
                    n \in 1..Len(config.shared_disks.items)}

\* every drive token over a set of paths
DriveTokensOver(paths) ==
    {DriveToken(p, f, ifc, n, ro) :
        p \in paths, f \in {"", "raw", "qcow2"}, ifc \in {"virtio", "ide"},
        n \in 0..(MaxShared + 1), ro \in BOOLEAN}

\* C12: every drive token of a returned vector, of the primary disk and of
\* the shared disks, has an absolute path as its file= value.
C12_DriveFilesAreAbsolute ==
    Returned =>
        \A n \in 1..Len(ValuesAfter(final_command, "-drive")) :
            ValuesAfter(final_command, "-drive")[n] \in
                DriveTokensOver({p \in ConfiguredDiskPaths : IsAbsolute(p)})

\* the IOMMU device argument is in the base arguments
IommuInBase ==
    PairPositions(base, "-device", "intel-iommu,intremap=on,caching-mode=on") # {}

\* C13 as stated: the IOMMU device argument is in the base arguments exactly
\* when the accelerator placed in the vector is kvm.
C13_IommuWithEveryKvm ==
    Returned => (IommuInBase <=> ValuesAfter(base, "-accel") = <<"kvm">>)

\* C13, amended: the IOMMU device argument is in the base arguments exactly
\* when the selector is auto (or missing) and resolves to kvm, that is on
\* Linux with a usable virtualization device; a configured kvm comes without.
C13_IommuWithAutoSelectedKvm ==
    Returned =>
        (IommuInBase <=>
            /\ config.accelerator \in {Absent, "auto"}
            /\ host.os = "linux"
            /\ host.kvm_ok)

C13_Witness ==
    /\ Returned
    /\ config.accelerator = "auto"
    /\ ValuesAfter(final_command, "-accel") = <<"kvm">>
    /\ PairPositions(final_command, "-device",
                     "intel-iommu,intremap=on,caching-mode=on") # {}

\* what follows the boot-order argument and its value in the base arguments
AfterBootOrder ==
    LET at == CHOOSE n \in 1..Len(base) : base[n] = "-boot"
    IN  SubSeq(base, at + 2, Len(base))

NetworkArgs == <<"-netdev", "user,id=net0", "-device", "e1000,netdev=net0">>

HasNetworkToken(cmd) ==
    \E n \in 1..Len(cmd) : cmd[n] \in {"-netdev", "user,id=net0",
                                       "e1000,netdev=net0"}

\* C14 as stated: with the network flag set the network arguments follow the
\* boot-order argument whatever the network type; with the flag unset the
\* vector has no network argument.
C14_NetworkArgsForEveryType ==
    Returned =>
        /\ Cardinality({n \in 1..Len(base) : base[n] = "-boot"}) = 1
        /\ AfterBootOrder = IF config.network_enabled THEN NetworkArgs ELSE <<>>
        /\ ~config.network_enabled => ~HasNetworkToken(final_command)

\* C14, amended: the network arguments follow the boot-order argument when
\* the flag is set and the network type is user (or missing); with any other
\* type, or the flag unset, the vector has no network argument.
C14_NetworkArgsForUserType ==
    Returned =>
        LET user_network == /\ config.network_enabled
                            /\ config.network_type \in {Absent, "user"}
        IN  /\ Cardinality({n \in 1..Len(base) : base[n] = "-boot"}) = 1
            /\ AfterBootOrder = IF user_network THEN NetworkArgs ELSE <<>>
            /\ ~user_network => ~HasNetworkToken(final_command)

C14_Witness ==
    /\ Returned
    /\ config.network_enabled
    /\ config.network_type = Absent
    /\ SubSeq(final_command, Len(final_command) - 5, Len(final_command))
           = <<"-boot", "order=dc">> \o NetworkArgs

\* this call has ended, and it found the file system and was told the answers
\* and tool outcomes that the call before it found and was told
SameInputsAsEarlier ==
    /\ earlier.done
    /\ pc = "done"
    /\ earlier.files = call_files
    /\ earlier.heard = heard

\* C15: a second call for the same configuration, on the same host and
\* settings, that finds the same file system and is told the same answers,
\* ends as the first did and returns the same vector: nothing the first call
\* left behind is read.
C15_SameInputsSameVector ==
    SameInputsAsEarlier =>
        /\ outcome = earlier.outcome
        /\ final_command = earlier.command

C15_Witness ==
    /\ SameInputsAsEarlier
    /\ Returned
    /\ prompts = 1
    /\ tool_runs # <<>>
    /\ ValuesAfter(final_command, "-drive") # <<>>

\* the absolute path the configured primary disk path stands for: as it is
\* when absolute, else under the storage directory with ".." folded
ResolvedPrimaryPath ==
    CASE PrimaryFilename = "/data/win.img" -> "/data/win.img"
      [] PrimaryFilename = "sub/../disk.qcow2" -> "/store/disk.qcow2"
      [] OTHER -> ""

\* the primary disk was missing when the call began, is set to be created,
\* and the image tool has run, exited well and left the file there
CreationSucceeded ==
    /\ PrimaryFilename # ""
    /\ config.disk_image.create_if_missing
    /\ ResolvedPrimaryPath \notin call_files
    /\ creations = 1
    /\ Len(tool_runs) = 1
    /\ \A m \in printed : m # "Warning: Failed to create or find primary disk"
    /\ ResolvedPrimaryPath \in files

\* C16: when a missing create-if-missing primary disk is created, the caller
\* is not asked whether to continue, the call is not aborted, and the first
\* drive token of the returned vector is the primary disk's, with the resolved
\* absolute path as file= and index 0.
C16_CreatedPrimaryIsDriveZero ==
    CreationSucceeded =>
        /\ prompts = 0
        /\ pc # "prompt"
        /\ outcome \in {"running", "returned"}
        /\ tool_runs[1][5] = ResolvedPrimaryPath
        /\ Returned =>
               /\ ValuesAfter(final_command, "-drive") # <<>>
               /\ ValuesAfter(final_command, "-drive")[1] =
                      DriveToken(ResolvedPrimaryPath,
                                 Get(config.disk_image.format, ""),
                                 Get(config.disk_image.interface, "virtio"),
                                 0, FALSE)

C16_Witness ==
    /\ CreationSucceeded
    /\ Returned
    /\ PrimaryFilename = "sub/../disk.qcow2"
    /\ ValuesAfter(final_command, "-drive")[1] =
           "file=/store/disk.qcow2,format=qcow2,if=ide,index=0,media=disk"

\* the tokens of the shared entries, written out, numbered from `first`
RECURSIVE SharedTokens(_, _)
SharedTokens(entries, first) ==
    IF entries = <<>> THEN <<>>
    ELSE <<DriveToken(entries[1].path, Get(entries[1].format, ""),
                      Get(entries[1].interface, "virtio"), first,
                      entries[1].readonly)>>
         \o SharedTokens(Tail(entries), first + 1)

\* C17: every drive token of a returned vector is the comma-joined string
\* file=<path>[,format=<format>],if=<interface>,index=<n>,media=disk
\* [,readonly=on]: format only for a non-empty format string, virtio for no
\* configured interface, readonly=on only for a shared disk with the flag set.
C17_DriveTokenShape ==
    Returned =>
        ValuesAfter(final_command, "-drive") =
            IF PrimaryAttachable
            THEN <<DriveToken(DiskFullPath(PrimaryFilename),
                              Get(config.disk_image.format, ""),
                              Get(config.disk_image.interface, "virtio"),
                              0, FALSE)>>
                 \o SharedTokens(AttachableShared, 1)
            ELSE SharedTokens(AttachableShared, 0)

C17_Witness ==
    /\ Returned
    /\ ValuesAfter(final_command, "-drive") =
           <<"file=/store/disk.qcow2,format=qcow2,if=virtio,index=0,media=disk",
             "file=/share/a.img,if=virtio,index=1,media=disk",
             "file=/share/a.img,format=raw,if=virtio,index=2,media=disk,readonly=on">>

\* the accelerator an "auto" selector stands for on this host
AutoAccelerator ==
    CASE host.os = "linux" /\ host.kvm_ok -> "kvm"
      [] host.os = "windows" -> "whpx,kernel-irqchip=on"
      [] host.os = "macos" -> "hvf"
      [] OTHER -> "tcg"

\* C18: a returned vector has one -accel, followed by the accelerator the
\* host gives for the selector auto (or a missing selector) and by the
\* configured selector, unchanged, for any other.
C18_AcceleratorResolution ==
    Returned =>
        ValuesAfter(final_command, "-accel") =
            <<IF config.accelerator \in {Absent, "auto"}
              THEN AutoAccelerator ELSE config.accelerator>>

C18_Witness ==
    /\ Returned
    /\ config.accelerator = "auto"
    /\ host.os = "linux"
    /\ ~host.kvm_ok
    /\ ValuesAfter(final_command, "-accel") = <<"tcg">>

\* the backend named after the script's -audiodev, for a configured selector
AudiodevFor(selector) ==
    <<(IF selector = "auto" THEN AutoBackend ELSE selector) \o ",id=audio0">>

\* C19 as stated: when the script manages audio, its -audiodev names the
\* host's backend for the selector auto and the configured backend, character
\* for character, for any other selector.
C19_BackendVerbatim ==
    (Returned /\ script_generated_audio_args # <<>>) =>
        ValuesAfter(script_generated_audio_args, "-audiodev")
            = AudiodevFor(config.audio_backend)

\* C19, amended: the same of the configured backend lower-cased: a selector
\* that is auto in any letter case stands for the host's backend, any other
\* is emitted in lower case.
C19_BackendLowerCased ==
    (Returned /\ script_generated_audio_args # <<>>) =>
        ValuesAfter(script_generated_audio_args, "-audiodev")
            = AudiodevFor(Lower(config.audio_backend))

C19_Witness ==
    /\ Returned
    /\ config.audio_backend = "AUTO"
    /\ host.os = "macos"
    /\ ValuesAfter(final_command, "-audiodev") = <<"coreaudio,id=audio0">>

\* the file a configured image path names: as it is when absolute, else in
\* the working directory
ImageFile(path) == IF path = "cd.iso" THEN "/cwd/cd.iso" ELSE path

\* an image is configured and its file is there
ImageThere(path) == path # "" /\ ImageFile(path) \in files

\* flag is in the base arguments once, followed by path, behind every -drive
\* and before -boot; or, when not wanted, flag is not in them at all
MediaArgPlaced(flag, path, wanted) ==
    LET at == {n \in 1..Len(base) : base[n] = flag}
    IN  IF wanted
        THEN /\ Cardinality(at) = 1
             /\ \A n \in at :
                    /\ n < Len(base) /\ base[n + 1] = path
                    /\ \A d \in 1..Len(base) : base[d] = "-drive" => d + 1 < n
                    /\ \A b \in 1..Len(base) : base[b] = "-boot" => n + 1 < b
        ELSE at = {}

\* nothing but a missing image stands in the way of this call: the VM and the
\* binary were found, the shared disks are well formed, and the primary disk
\* is not configured or was there when the call began
OnlyMediaCanFail ==
    /\ outcome # "none"
    /\ ~MalformedShared
    /\ PrimaryFilename = "" \/ DiskFullPath(PrimaryFilename) \in call_files

\* C20: in a returned vector -cdrom <iso> (and -fda <floppy>) is in the base
\* arguments, after all drives and before the boot order, exactly when the
\* path is configured and its file exists; a configured image that is missing
\* is warned about, and neither ends the call nor asks the caller anything.
C20_MediaIffConfiguredAndThere ==
    LET iso == config.iso_path
        floppy == config.floppy_path
    IN  /\ Returned =>
               /\ MediaArgPlaced("-cdrom", iso, ImageThere(iso))
               /\ MediaArgPlaced("-fda", floppy, ImageThere(floppy))
               /\ (iso # "" /\ ~ImageThere(iso))
                      <=> "Warning: ISO image not found" \in printed
               /\ (floppy # "" /\ ~ImageThere(floppy))
                      <=> "Warning: Floppy image not found" \in printed
        /\ OnlyMediaCanFail =>
               /\ prompts = 0
               /\ pc = "done" => Returned

C20_Witness ==
    /\ Returned
    /\ config.iso_path = "cd.iso"
    /\ config.floppy_path = "/iso/boot.img"
    /\ ~ImageThere(config.floppy_path)
    /\ "Warning: Floppy image not found" \in printed
    /\ Len(ValuesAfter(base, "-drive")) = 2
    /\ SubSeq(base, Len(base) - 3, Len(base))
           = <<"-cdrom", "cd.iso", "-boot", "order=dc">>

\* the spawner has been handed nothing but the whole vector returned, once,
\* and launch_vm has not raised
SpawnOnlyReturnedVector ==
    /\ Len(spawned) <= 1
    /\ spawned # <<>> =>
           /\ Returned
           /\ spawned[1] = final_command
           /\ spawned[1] = base \o final_extra_args \o script_generated_audio_args
           /\ \E n \in 1..Len(spawned[1]) : spawned[1][n] = "-boot"
    /\ (~host.vm_known \/ BinaryUnresolved \/ outcome \in {"none", "SystemExit"})
           => spawned = <<>>
    /\ launch # "raised"
    /\ launch = "menu" => pc = "done"

\* C21: launch_vm hands a vector to the spawner at most once, and only the
\* whole vector build_qemu_command has returned; when the VM id is unknown,
\* the binary is unresolved or the caller aborts at the missing primary disk,
\* nothing is spawned; and launch_vm ends, by returning, never by raising.
C21_SpawnsOnceAndReturns ==
    []SpawnOnlyReturnedVector /\ <>(launch = "menu")

C21_Witness ==
    /\ launch = "menu"
    /\ outcome = "SystemExit"
    /\ prompts = 1
    /\ spawned = <<>>
    /\ "Launch aborted" \in printed

\* the image tool can be resolved: the configured name is a file or on PATH,
\* or the default name is on PATH
ImageToolResolvable ==
    LET setting == host.settings.img
        default == "qemu-img" \o (IF host.os = "windows" THEN ".exe" ELSE "")
    IN  \/ setting # "" /\ (setting \in host.exe_files \/ setting \in host.on_path)
        \/ default \in host.on_path

\* the binary the image tool is run as, when it can be resolved
ImageTool ==
    LET setting == host.settings.img
    IN  IF setting # "" /\ (setting \in host.exe_files \/ setting \in host.on_path)
        THEN setting
        ELSE "/usr/bin/qemu-img" \o (IF host.os = "windows" THEN ".exe" ELSE "")

\* all that has to hold for the image tool to be run by the one call made
CreationDue ==
    /\ PrimaryFilename # ""
    /\ ResolvedPrimaryPath \notin call_files
    /\ config.disk_image.create_if_missing
    /\ config.disk_image.size \notin {Absent, ""}
    /\ ImageToolResolvable
    /\ heard[1].typed \in {"", "y", "Y"}

\* what C22 says of the tool and of success, after the one call made
ToolRunAndSuccessAsDue ==
    /\ creations = 1
    /\ Len(create_rets) = 1
    /\ tool_runs # <<>> <=> CreationDue
    /\ CreationDue =>
           tool_runs = <<<<ImageTool, "create", "-f",
                           IF config.disk_image.format \in {Absent, ""}
                           THEN "qcow2" ELSE config.disk_image.format,
                           ResolvedPrimaryPath, config.disk_image.size>>>>
    /\ create_rets[1] <=>
           \/ PrimaryFilename # "" /\ ResolvedPrimaryPath \in call_files
           \/ CreationDue /\ heard[1].tool_ok

Occurrences(seq, token) ==
    Cardinality({n \in 1..Len(seq) : seq[n] = token})

\* C23: while and after the passthrough words are filtered, what is kept of
\* them holds no -audiodev and no -soundhw token, in both audio decisions and
\* also for one that ends the words with no value behind it; behind the base
\* arguments a returned vector has one -audiodev, the script's own, when the
\* script manages audio, and none when it does not.
C23_NoAudiodevOrSoundhwKept ==
    /\ (pc = "filter" \/ Returned) =>
           /\ Occurrences(final_extra_args, "-audiodev") = 0
           /\ Occurrences(final_extra_args, "-soundhw") = 0
    /\ Returned =>
           LET behind == SubSeq(final_command, Len(base) + 1, Len(final_command))
           IN  /\ Occurrences(behind, "-soundhw") = 0
               /\ IF script_generated_audio_args = <<>>
                  THEN Occurrences(behind, "-audiodev") = 0
                  ELSE /\ Occurrences(behind, "-audiodev") = 1
                       /\ behind[Len(final_extra_args) + 1] = "-audiodev"

C23_Witness ==
    /\ Returned
    /\ config.audio_enabled
    /\ temp_extra_args = <<"-soundhw", "pa,id=audio0", "-device", "-audiodev">>
    /\ final_extra_args = <<"-device">>
    /\ Occurrences(final_command, "-audiodev") = 1

====
